---- MODULE Spec2Model ----
(***************************************************************************)
(* A state-machine model of the basic authentication middleware of        *)
(* kataras/basicauth: the per-request decision of BasicAuth.serveHTTP,     *)
(* the credentials map and its RWMutex, the client-held tries cookie, the  *)
(* request-scoped context (GetUser / Logout) and the gc worker.            *)
(***************************************************************************)
EXTENDS Integers, Sequences, FiniteSets, TLC

\* ------------------------------------------------------------------ bounds
\* The clock takes the values 0..MaxTime.
MaxTime == 3
\* Number of request goroutines that can be in flight at once.
NReq == 2
\* The inserts counted per key between two removals.
MaxInserts == 2
\* A client sends back a tries cookie whose count is within -MaxCount..MaxCount
\* (or the largest int); what it sends otherwise is one of ForgedCookies.
MaxCount == 3
\* The Logout calls a handler makes on one request.
MaxLogouts == 2

\* ---------------------------------------------------- program constants
\* The width of Go's int on a 32-bit build (strconv.IntSize); `tries` is an int.
MaxInt == 2147483647
MinInt == -2147483647 - 1
\* DefaultCookieMaxAge = time.Hour, in seconds, the unit of the clock.
DefaultCookieMaxAge == 3600
StatusUnauthorized == 401
StatusProxyAuthRequired == 407

authenticateHeaderKey == "WWW-Authenticate"
proxyAuthenticateHeaderKey == "Proxy-Authenticate"
authorizationHeaderKey == "Authorization"
proxyAuthorizationHeaderKey == "Proxy-Authorization"

\* ------------------------------------------------------------ the types
\* A *time.Time of the credentials map: NilTime is the nil pointer.
NilTime == -1
\* A process that holds no lock / the pid of the gc goroutine.
NoPid == -1
GCPid == 0
Reqs == 1..NReq

\* An absent header, and a header that decodeHeader rejects.
NoHeader == [kind |-> "absent", u |-> "", p |-> ""]
BadHeader == [kind |-> "malformed", u |-> "", p |-> ""]
BasicHeader(u, p) == [kind |-> "basic", u |-> u, p |-> p]

\* The user values (interface{}) that can be stored in a request's context.
NilUser == [type |-> "nil", username |-> "", password |-> ""]
\* a value of a type without the User methods (as the test's `user` struct).
StructUser(u, p) == [type |-> "struct", username |-> u, password |-> p]
\* a value of a type that implements User (GetUsername/GetPassword).
RichUser(u, p) == [type |-> "User", username |-> u, password |-> p]
SimpleUser(u, p) == [type |-> "*SimpleUser", username |-> u, password |-> p]

colonLiteral == ":"
FullUser(u, p) == <<u, colonLiteral, p>>

\* ------------------------------------------- strconv over decimal strings
Digits == <<"0", "1", "2", "3", "4", "5", "6", "7", "8", "9">>
IsDigit(c) == \E d \in 1..10 : Digits[d] = c
DigitVal(c) == (CHOOSE d \in 1..10 : Digits[d] = c) - 1

RECURSIVE UItoa(_)
UItoa(n) == IF n < 10 THEN <<Digits[n + 1]>>
            ELSE Append(UItoa(n \div 10), Digits[(n % 10) + 1])

\* strconv.Itoa(i): the decimal text of i.
Itoa(i) ==
  IF i >= 0 THEN UItoa(i)
  ELSE IF i = MinInt THEN <<"-">> \o UItoa(MaxInt \div 10) \o <<Digits[(MaxInt % 10) + 2]>>
  ELSE <<"-">> \o UItoa(0 - i)

\* strconv.ParseUint's loop over the digits of s with the cutoff `limit`:
\* the number, or -1 on a syntax error, or -2 when out of range.
RECURSIVE ParseDigits(_, _, _)
ParseDigits(s, n, limit) ==
  IF s = <<>> THEN n
  ELSE IF ~IsDigit(Head(s)) THEN -1
  ELSE IF n > (limit - DigitVal(Head(s))) \div 10 THEN -2
  ELSE ParseDigits(Tail(s), n * 10 + DigitVal(Head(s)), limit)

\* strconv.Atoi(s) with the error dropped (tries, _ = strconv.Atoi(v)):
\* 0 on a syntax error, the nearest bound on a range error.
Atoi(s) ==
  IF s = <<>> THEN 0
  ELSE LET neg == Head(s) = "-"
           body == IF Head(s) \in {"-", "+"} THEN Tail(s) ELSE s
           un == IF body = <<>> THEN -1 ELSE ParseDigits(body, 0, MaxInt)
       IN IF un = -1 THEN 0
          ELSE IF un = -2 THEN (IF neg THEN MinInt ELSE MaxInt)
          ELSE IF neg THEN 0 - un ELSE un

\* url.QueryEscape keeps the unreserved characters, digits and '-' among them.
QueryEscape(s) ==
  [k \in 1..Len(s) |-> IF IsDigit(s[k]) \/ s[k] = "-" THEN s[k] ELSE "%"]

\* tries++ on a Go int: signed overflow wraps around.
IncInt(n) == IF n = MaxInt THEN MinInt ELSE n + 1

\* ------------------------------------------------------------- Options
\* The option values the engine is constructed with.
MaxAgeValues == {0, 2}
MaxTriesValues == {0, 2}
DefaultRealm == <<"Authorization Required">>

\* Allow: whether the predicate is given (not nil); ErrorHandler: nil or a
\* handler of the application.
OptionsSet ==
  [Realm : {DefaultRealm}, Proxy : BOOLEAN, HTTPSOnly : BOOLEAN,
   Allow : BOOLEAN, MaxAge : MaxAgeValues, MaxTries : MaxTriesValues,
   ErrorHandler : {"nil", "custom"},
   ErrorLogger : BOOLEAN, GCEvery : {0, 1}, GCContext : BOOLEAN,
   OnLogoutClearContext : BOOLEAN]

\* strconv.Quote of a realm without characters to escape.
Quote(s) == <<"\"">> \o s \o <<"\"">>

\* New panicked: no BasicAuth value, no middleware.
Panicked(o) ==
  [constructed |-> FALSE, opts |-> o, askCode |-> 0, authorizationHeader |-> "",
   authenticateHeader |-> "", authenticateHeaderValue |-> <<>>]

\* A slip: the proxy mode does not change the header the engine reads.
EngineReadsAuthorization(o) ==
  [constructed |-> TRUE,
   opts |-> [o EXCEPT !.ErrorHandler = IF @ = "nil" THEN "DefaultErrorHandler"
                                       ELSE @],
   askCode |-> IF o.Proxy THEN StatusProxyAuthRequired ELSE StatusUnauthorized,
   authorizationHeader |-> authorizationHeaderKey,
   authenticateHeader |-> IF o.Proxy THEN proxyAuthenticateHeaderKey
                          ELSE authenticateHeaderKey,
   authenticateHeaderValue |-> IF o.Realm # <<>>
                               THEN <<"Basic", " realm=">> \o Quote(o.Realm)
                               ELSE <<"Basic">>]
\* The BasicAuth value New builds from the options (lines 231-266).
Engine(o) ==
  [constructed |-> TRUE,
   opts |-> [o EXCEPT !.ErrorHandler = IF @ = "nil" THEN "DefaultErrorHandler"
                                       ELSE @],
   askCode |-> IF o.Proxy THEN StatusProxyAuthRequired ELSE StatusUnauthorized,
   authorizationHeader |-> IF o.Proxy THEN proxyAuthorizationHeaderKey
                           ELSE authorizationHeaderKey,
   authenticateHeader |-> IF o.Proxy THEN proxyAuthenticateHeaderKey
                          ELSE authenticateHeaderKey,
   authenticateHeaderValue |-> IF o.Realm # <<>>
                               THEN <<"Basic", " realm=">> \o Quote(o.Realm)
                               ELSE <<"Basic">>]

\* A slip: the predicate is not checked.
NewUnchecked(o) == Engine(o)
\* New: panics without a predicate, builds the engine otherwise.
New(o) == IF ~o.Allow THEN Panicked(o) ELSE Engine(o)

\* ------------------------------------------------ the external predicate
\* opts.Allow: the verification predicate of the modelled application.
\* It returns a user value and whether the login succeeded.
Allow(username, password) ==
  CASE username = "kataras" /\ password = "kataras_pass"
         -> [user |-> StructUser(username, password), ok |-> TRUE]
    [] username = "george" /\ password = "george_pass"
         -> [user |-> NilUser, ok |-> TRUE]
    [] username = "john" /\ password = "john_pass"
         -> [user |-> RichUser("john", "$2a$hash"), ok |-> TRUE]
    [] OTHER -> [user |-> NilUser, ok |-> FALSE]

\* The header values a client sends.
Headers ==
  {NoHeader, BadHeader, BasicHeader("kataras", "kataras_pass"),
   BasicHeader("george", "george_pass"), BasicHeader("john", "john_pass"),
   BasicHeader("kataras", "wrong")}
\* The values of the Authorization header when the engine reads
\* Proxy-Authorization; nothing reads Proxy-Authorization otherwise.
OtherHeaders(eng) ==
  IF eng.opts.Proxy THEN {NoHeader, BasicHeader("george", "george_pass")}
  ELSE {NoHeader}

\* decodeHeader: (fullUser, username, password, ok) of a header value.
decodeHeader(header) ==
  IF header.kind = "basic"
  THEN [fullUser |-> FullUser(header.u, header.p), username |-> header.u,
        password |-> header.p, ok |-> TRUE]
  ELSE [fullUser |-> <<>>, username |-> "", password |-> "", ok |-> FALSE]

\* The keys the credentials map can hold.
Keys ==
  {FullUser(h.u, h.p) : h \in {x \in Headers : x.kind = "basic"}}
    \cup {FullUser("john", "$2a$hash")}

\* ------------------------------------------------------------ cookies
\* A cookie of a request or of the client's jar. `forbidden` records that
\* the value was issued together with an ErrCredentialsForbidden.
NoCookie == [present |-> FALSE, value |-> <<>>, forbidden |-> FALSE]
Cookie(v) == [present |-> TRUE, value |-> v, forbidden |-> FALSE]

\* Cookie values a client can make up itself.
ForgedCookies ==
  {Cookie(<<>>), Cookie(<<"x">>), Cookie(<<"-", "1">>), Cookie(Itoa(MaxInt)),
   Cookie(<<"9", "9", "9", "9", "9", "9", "9", "9", "9", "9", "9">>)}

\* getCurrentTries: the tries of the request's cookie.
getCurrentTries(cookie) ==
  IF cookie.present /\ cookie.value # <<>> THEN Atoi(cookie.value) ELSE 0

\* The cookies a client sends.
Sendable(c) ==
  LET n == getCurrentTries(c)
  IN (0 - MaxCount <= n /\ n <= MaxCount) \/ n = MaxInt

\* setCurrentTries / resetCurrentTries: the cookie given to http.SetCookie.
TriesCookie(eng, tries) ==
  [value |-> QueryEscape(Itoa(tries)),
   MaxAge |-> IF eng.opts.MaxAge = 0 THEN DefaultCookieMaxAge ELSE eng.opts.MaxAge,
   expired |-> FALSE]
ResetCookie == [value |-> <<>>, MaxAge |-> -1, expired |-> TRUE]

\* ------------------------------------------------------------- errors
NoErr == [type |-> "nil"]
ErrHTTPVersion == [type |-> "ErrHTTPVersion"]
ErrCredentialsMissing(eng, header) ==
  [type |-> "ErrCredentialsMissing", Header |-> header,
   AuthenticateHeader |-> eng.authenticateHeader,
   AuthenticateHeaderValue |-> eng.authenticateHeaderValue, Code |-> eng.askCode]
ErrCredentialsForbidden(eng, username, password, tries) ==
  [type |-> "ErrCredentialsForbidden", Username |-> username,
   Password |-> password, Tries |-> tries, Age |-> eng.opts.MaxAge]
ErrCredentialsInvalid(eng, username, password, tries) ==
  [type |-> "ErrCredentialsInvalid", Username |-> username,
   Password |-> password, CurrentTries |-> tries,
   AuthenticateHeader |-> eng.authenticateHeader,
   AuthenticateHeaderValue |-> eng.authenticateHeaderValue, Code |-> eng.askCode]
ErrCredentialsExpired(eng, username, password) ==
  [type |-> "ErrCredentialsExpired", Username |-> username,
   Password |-> password, AuthenticateHeader |-> eng.authenticateHeader,
   AuthenticateHeaderValue |-> eng.authenticateHeaderValue, Code |-> eng.askCode]

\* ------------------------------------------------------------ context
\* The two values of a request's context: the user and the logout function
\* ("unset": no value under the key, "bound": b.logout, "nil": a nil logoutFunc).
EmptyContext == [user |-> NilUser, logout |-> "unset"]
newContext(user, logoutFn) == [user |-> user, logout |-> logoutFn]
clearContext == newContext(NilUser, "nil")
\* GetUser(r)
GetUser(r) == r.ctx.user
\* r.BasicAuth(): the credentials of the request's Authorization header.
RequestBasicAuth(r) == decodeHeader(r.hdr[authorizationHeaderKey])

\* ------------------------------------------------------------- state
VARIABLES
  b,            \* the BasicAuth value built by New
  credentials,  \* b.credentials: fullUser -> expiration (NilTime: none)
  mu,           \* b.mu: the writer and the readers that hold the RWMutex
  now,          \* time.Now()
  req,          \* the request goroutines
  gc,           \* the runGC goroutine
  jar,          \* the tries cookie the client holds
  env,          \* the clients: requests in flight, what they send, Logout calls
  hist          \* history: what the predicate accepted, inserts per key,
                \* the keys of the map when the running sweep started

vars == <<b, credentials, mu, now, req, gc, jar, env, hist>>

NoHeaders == [h \in {authorizationHeaderKey, proxyAuthorizationHeaderKey} |-> NoHeader]

\* A request goroutine that serves no request. The last fields are history:
\* wrote: the writes of serveHTTP to the map; passed, failed: the checks the
\* request passed and the one it failed; stale: the lookup met an entry whose
\* expiration was over; calls: the collaborators called, in order.
IdleReq ==
  [pc |-> "idle", scheme |-> "", tls |-> FALSE, protoMajor |-> 0,
   hdr |-> NoHeaders, cookie |-> NoCookie,
   fullUser |-> <<>>, username |-> "", password |-> "",
   tries |-> 0, user |-> NilUser, found |-> FALSE, expiresAt |-> NilTime,
   ctx |-> EmptyContext, w |-> <<>>, err |-> NoErr,
   nextCalls |-> 0, errCalls |-> 0, logged |-> 0, logouts |-> 0, calls |-> <<>>,
   wrote |-> <<>>, passed |-> {}, failed |-> "", stale |-> FALSE,
   run |-> FALSE, prev |-> 0]

Unlocked == [w |-> NoPid, r |-> {}]

\* --------------------------------------------------- the credentials map
Found(k) == k \in DOMAIN credentials
MapSet(m, k, v) == [x \in DOMAIN m \cup {k} |-> IF x = k THEN v ELSE m[x]]
MapDelete(m, k) == [x \in DOMAIN m \ {k} |-> m[x]]
\* A slip: After in the place of Before.
BeforeSwapped(expiresAt, t) == expiresAt > t
\* expiresAt.Before(t)
Before(expiresAt, t) == expiresAt < t

\* sync.RWMutex: RLock needs no writer, Lock needs no holder at all.
CanRLock == mu.w = NoPid
CanLock == mu.w = NoPid /\ mu.r = {}

\* --------------------------------------------------------- serveHTTP
isHTTPS(r) == (r.scheme = "https" \/ r.tls) /\ r.protoMajor = 2

Busy == {j \in Reqs : req[j].pc # "idle"}

\* A slip: the transport failure is not followed by a return.
ServeNoReturn(i) ==
  /\ b.constructed
  /\ req[i].pc = "idle"
  /\ \A j \in Reqs : j < i => req[j].pc # "idle"
  /\ Cardinality(Busy) < env.workers
  /\ IF b.opts.HTTPSOnly
     THEN \E scheme \in {"http", "https"}, tls \in BOOLEAN, protoMajor \in {1, 2} :
            LET r == [req[i] EXCEPT !.scheme = scheme, !.tls = tls,
                                    !.protoMajor = protoMajor]
            IN req' = [req EXCEPT ![i] =
                 IF ~isHTTPS(r)
                 THEN [r EXCEPT !.pc = "decode", !.err = ErrHTTPVersion,
                                !.failed = "transport"]
                 ELSE [r EXCEPT !.pc = "decode", !.passed = {"transport"}]]
     ELSE req' = [req EXCEPT ![i].pc = "decode", ![i].passed = {"transport"}]
  /\ UNCHANGED <<b, credentials, mu, now, gc, jar, env, hist>>
\* A request arrives at the first free goroutine of the server that installed
\* the middleware New returned; the transport check, which
\* reads the scheme, the TLS state and the protocol only under HTTPSOnly.
Serve(i) ==
  /\ b.constructed
  /\ req[i].pc = "idle"
  /\ \A j \in Reqs : j < i => req[j].pc # "idle"
  /\ Cardinality(Busy) < env.workers
  /\ IF b.opts.HTTPSOnly
     THEN \E scheme \in {"http", "https"}, tls \in BOOLEAN, protoMajor \in {1, 2} :
            LET r == [req[i] EXCEPT !.scheme = scheme, !.tls = tls,
                                    !.protoMajor = protoMajor]
            IN req' = [req EXCEPT ![i] =
                 IF ~isHTTPS(r)
                 THEN [r EXCEPT !.pc = "error", !.err = ErrHTTPVersion,
                                !.failed = "transport"]
                 ELSE [r EXCEPT !.pc = "decode", !.passed = {"transport"}]]
     ELSE req' = [req EXCEPT ![i].pc = "decode", ![i].passed = {"transport"}]
  /\ UNCHANGED <<b, credentials, mu, now, gc, jar, env, hist>>

\* The header is read and decoded.
Decode(i) ==
  /\ req[i].pc = "decode"
  /\ \E h \in env.headers, o \in OtherHeaders(b) :
       LET other == IF b.authorizationHeader = authorizationHeaderKey
                    THEN proxyAuthorizationHeaderKey ELSE authorizationHeaderKey
           hdr == [x \in DOMAIN NoHeaders |->
                     IF x = b.authorizationHeader THEN h ELSE o]
           header == hdr[b.authorizationHeader]
           d == decodeHeader(header)
           r == [req[i] EXCEPT !.scheme = "", !.tls = FALSE, !.protoMajor = 0,
                               !.hdr = hdr]
       IN req' = [req EXCEPT ![i] =
            IF ~d.ok
            THEN [r EXCEPT !.pc = "error", !.err = ErrCredentialsMissing(b, header),
                           !.failed = "header"]
            ELSE [r EXCEPT !.pc = "tries", !.fullUser = d.fullUser,
                           !.username = d.username, !.password = d.password,
                           !.passed = @ \cup {"header"}]]
  /\ UNCHANGED <<b, credentials, mu, now, gc, jar, env, hist>>

\* Whether a request with the cookie c belongs to a run of rejected requests
\* of a client that starts without a cookie and then sends back the cookie it
\* last received, and the number of rejected requests of the run before it.
InRun(c) == ~c.present \/ (c = jar /\ hist.streak > 0)
RunBefore(c) == IF c.present /\ InRun(c) THEN hist.streak ELSE 0

\* The tries are read from the cookie when MaxTries > 0.
GetTries(i) ==
  /\ req[i].pc = "tries"
  /\ IF b.opts.MaxTries > 0
     THEN \E c \in {jar, NoCookie} \cup env.cookies :
            /\ Sendable(c)
            /\ req' = [req EXCEPT ![i].pc = "allow", ![i].cookie = c,
                               ![i].tries = getCurrentTries(c),
                               ![i].run = InRun(c),
                               ![i].prev = RunBefore(c)]
     ELSE req' = [req EXCEPT ![i].pc = "allow"]
  /\ UNCHANGED <<b, credentials, mu, now, gc, jar, env, hist>>

\* A slip: the rejection does not return, the request goes on to the cache.
RejectedFallsThrough(eng, r) == [r EXCEPT !.pc = "rlock"]
\* A slip: the tries are counted whatever MaxTries is.
RejectedCounts(eng, r) ==
  LET tries == IncInt(r.tries)
      r1 == [r EXCEPT !.tries = tries, !.w = Append(r.w, TriesCookie(eng, tries))]
  IN IF tries >= eng.opts.MaxTries
     THEN [r1 EXCEPT !.pc = "error",
             !.err = ErrCredentialsForbidden(eng, r.username, r.password, tries)]
     ELSE [r1 EXCEPT !.pc = "error",
             !.err = ErrCredentialsInvalid(eng, r.username, r.password, tries)]
\* The request after opts.Allow rejected it (lines 401-425).
Rejected(eng, r) ==
  IF eng.opts.MaxTries > 0
  THEN LET tries == IncInt(r.tries)
           r1 == [r EXCEPT !.tries = tries,
                           !.w = Append(r.w, TriesCookie(eng, tries))]
       IN IF tries >= eng.opts.MaxTries
          THEN [r1 EXCEPT !.pc = "error",
                  !.err = ErrCredentialsForbidden(eng, r.username, r.password, tries)]
          ELSE [r1 EXCEPT !.pc = "error",
                  !.err = ErrCredentialsInvalid(eng, r.username, r.password, tries)]
  ELSE [r EXCEPT !.pc = "error",
          !.err = ErrCredentialsInvalid(eng, r.username, r.password, r.tries)]

\* A slip: the tries are not reset.
AcceptedNoReset(eng, r, user) == [r EXCEPT !.pc = "rlock", !.user = user]
\* The request after opts.Allow accepted it (lines 427-430).
Accepted(eng, r, user) ==
  [r EXCEPT !.pc = "rlock", !.user = user,
            !.w = IF r.tries > 0 THEN Append(r.w, ResetCookie) ELSE r.w]

\* opts.Allow is called and its answer handled.
AllowStep(i) ==
  /\ req[i].pc = "allow"
  /\ LET a == Allow(req[i].username, req[i].password)
         r == IF a.ok THEN Accepted(b, req[i], a.user) ELSE Rejected(b, req[i])
     IN /\ req' = [req EXCEPT ![i] =
             [r EXCEPT !.passed = IF a.ok THEN @ \cup {"predicate"} ELSE @,
                       !.failed = IF a.ok THEN @ ELSE "predicate"]]
        /\ hist' = IF a.ok
                   THEN [hist EXCEPT !.accepted = @ \cup {req[i].fullUser}]
                   ELSE hist
  /\ UNCHANGED <<b, credentials, mu, now, gc, jar, env>>

\* b.mu.RLock(); expiresAt, ok := b.credentials[fullUser]
RLockRead(i) ==
  /\ req[i].pc = "rlock"
  /\ CanRLock
  /\ mu' = [mu EXCEPT !.r = @ \cup {i}]
  /\ req' = [req EXCEPT ![i].pc = "runlock",
                        ![i].found = Found(req[i].fullUser),
                        ![i].expiresAt = IF Found(req[i].fullUser)
                                         THEN credentials[req[i].fullUser]
                                         ELSE NilTime,
                        ![i].stale = /\ req[i].fullUser \in DOMAIN credentials
                                     /\ credentials[req[i].fullUser] # NilTime
                                     /\ credentials[req[i].fullUser] < now]
  /\ UNCHANGED <<b, credentials, now, gc, jar, env, hist>>

\* A slip: the branch of the expired entry is missing.
AfterLookupNoExpiry(eng, r, t) ==
  IF r.found THEN [r EXCEPT !.pc = "attach"]
  ELSE [r EXCEPT !.pc = "lockins",
                 !.expiresAt = IF eng.opts.MaxAge > 0 THEN t + eng.opts.MaxAge
                               ELSE r.expiresAt]
\* A slip: an entry that is found and valid is written again (sliding expiration).
AfterLookupRefresh(eng, r, t) ==
  IF r.found /\ r.expiresAt # NilTime /\ Before(r.expiresAt, t)
  THEN [r EXCEPT !.pc = "lockdel"]
  ELSE [r EXCEPT !.pc = "lockins",
                 !.expiresAt = IF eng.opts.MaxAge > 0 THEN t + eng.opts.MaxAge
                               ELSE r.expiresAt]
\* What the request does with the result of the lookup (lines 435-459).
AfterLookup(eng, r, t) ==
  IF r.found
  THEN IF r.expiresAt # NilTime /\ Before(r.expiresAt, t)
       THEN [r EXCEPT !.pc = "lockdel"]
       ELSE [r EXCEPT !.pc = "attach"]
  ELSE [r EXCEPT !.pc = "lockins",
                 !.expiresAt = IF eng.opts.MaxAge > 0 THEN t + eng.opts.MaxAge
                               ELSE r.expiresAt]

\* b.mu.RUnlock() and the branch on the entry, with time.Now().
RUnlock(i) ==
  /\ req[i].pc = "runlock"
  /\ mu' = [mu EXCEPT !.r = @ \ {i}]
  /\ LET expired == /\ req[i].found
                    /\ req[i].expiresAt # NilTime
                    /\ req[i].expiresAt < now
     IN req' = [req EXCEPT ![i] =
          [AfterLookup(b, req[i], now) EXCEPT
             !.passed = IF expired THEN @ ELSE @ \cup {"cache"},
             !.failed = IF expired THEN "cache" ELSE @]]
  /\ UNCHANGED <<b, credentials, now, gc, jar, env, hist>>

\* b.mu.Lock(); delete(b.credentials, fullUser)
LockDelete(i) ==
  /\ req[i].pc = "lockdel"
  /\ CanLock
  /\ mu' = [mu EXCEPT !.w = i]
  /\ credentials' = MapDelete(credentials, req[i].fullUser)
  /\ req' = [req EXCEPT ![i].pc = "unlockdel",
                        ![i].wrote = Append(@, "delete")]
  /\ hist' = [hist EXCEPT !.inserts[req[i].fullUser] = 0]
  /\ UNCHANGED <<b, now, gc, jar, env>>

\* b.mu.Unlock() and the expired error.
UnlockDelete(i) ==
  /\ req[i].pc = "unlockdel"
  /\ mu' = [mu EXCEPT !.w = NoPid]
  /\ req' = [req EXCEPT ![i].pc = "error",
               ![i].err = ErrCredentialsExpired(b, req[i].username, req[i].password)]
  /\ UNCHANGED <<b, credentials, now, gc, jar, env, hist>>

\* A slip: the insert without b.mu.Lock().
InsertWithoutLock(i) ==
  /\ req[i].pc = "lockins"
  /\ credentials' = MapSet(credentials, req[i].fullUser, req[i].expiresAt)
  /\ req' = [req EXCEPT ![i].pc = "unlockins",
                        ![i].wrote = Append(@, "insert")]
  /\ hist' = [hist EXCEPT !.inserts[req[i].fullUser] =
                             IF @ < MaxInserts THEN @ + 1 ELSE @,
                           !.atStart = @ \ {req[i].fullUser}]
  /\ UNCHANGED <<b, mu, now, gc, jar, env>>
\* b.mu.Lock(); b.credentials[fullUser] = expiresAt
LockInsert(i) ==
  /\ req[i].pc = "lockins"
  /\ CanLock
  /\ mu' = [mu EXCEPT !.w = i]
  /\ credentials' = MapSet(credentials, req[i].fullUser, req[i].expiresAt)
  /\ req' = [req EXCEPT ![i].pc = "unlockins",
                        ![i].wrote = Append(@, "insert")]
  /\ hist' = [hist EXCEPT !.inserts[req[i].fullUser] =
                             IF @ < MaxInserts THEN @ + 1 ELSE @,
                           !.atStart = @ \ {req[i].fullUser}]
  /\ UNCHANGED <<b, now, gc, jar, env>>

\* A slip: b.mu.Unlock() is missing after the insert.
UnlockInsertMissing(i) ==
  /\ req[i].pc = "unlockins"
  /\ req' = [req EXCEPT ![i].pc = "attach"]
  /\ UNCHANGED <<b, credentials, mu, now, gc, jar, env, hist>>
\* b.mu.Unlock()
UnlockInsert(i) ==
  /\ req[i].pc = "unlockins"
  /\ mu' = [mu EXCEPT !.w = NoPid]
  /\ req' = [req EXCEPT ![i].pc = "attach"]
  /\ UNCHANGED <<b, credentials, now, gc, jar, env, hist>>

\* A slip: the user of the predicate is dropped.
ResolveUserDefault(user, username, password) == SimpleUser(username, password)
\* The user stored in the context (lines 465-472).
ResolveUser(user, username, password) ==
  IF user = NilUser THEN SimpleUser(username, password) ELSE user

\* r = r.WithContext(newContext(...)); next.ServeHTTP(w, r)
Attach(i) ==
  /\ req[i].pc = "attach"
  /\ req' = [req EXCEPT ![i].pc = "handler",
               ![i].ctx = newContext(ResolveUser(req[i].user, req[i].username,
                                                 req[i].password), "bound"),
               ![i].nextCalls = @ + 1,
               ![i].calls = Append(@, "next")]
  /\ UNCHANGED <<b, credentials, mu, now, gc, jar, env, hist>>

\* A slip: the error handler is called without the logger.
HandleErrorNoLog(i) ==
  /\ req[i].pc = "error"
  /\ req' = [req EXCEPT ![i].pc = "done", ![i].errCalls = @ + 1,
               ![i].calls = Append(@, b.opts.ErrorHandler)]
  /\ UNCHANGED <<b, credentials, mu, now, gc, jar, env, hist>>
\* handleError: the logger, then the error handler (a nil one panics).
HandleError(i) ==
  /\ req[i].pc = "error"
  /\ LET l == IF b.opts.ErrorLogger THEN <<"ErrorLogger">> ELSE <<>>
     IN req' = [req EXCEPT
               ![i].pc = IF b.opts.ErrorHandler = "nil" THEN "panic" ELSE "done",
               ![i].logged = @ + Len(l),
               ![i].errCalls = IF b.opts.ErrorHandler = "nil" THEN @ ELSE @ + 1,
               ![i].calls = @ \o l \o
                            (IF b.opts.ErrorHandler = "nil" THEN <<>>
                             ELSE <<b.opts.ErrorHandler>>)]
  /\ UNCHANGED <<b, credentials, mu, now, gc, jar, env, hist>>

\* ------------------------------------------------------------- logout
\* Whether the value completes the User interface (v.(User)).
IsUser(v) == v.type \in {"User", "*SimpleUser"}

\* A slip: only the header the engine reads is deleted.
StripOwnHeader(eng, hdr) ==
  [x \in DOMAIN hdr |-> IF x = eng.authorizationHeader THEN NoHeader ELSE hdr[x]]
\* r.Header.Del of the authorization header(s) (lines 515-519).
StripHeaders(eng, hdr) ==
  [x \in DOMAIN hdr |->
     IF x = authorizationHeaderKey
        \/ (eng.opts.Proxy /\ x = proxyAuthorizationHeaderKey)
     THEN NoHeader ELSE hdr[x]]

\* b.logout up to the lock: the request it returns, and the entry it is
\* going to delete when ok (lines 487-519).
logout(eng, r) ==
  LET v == GetUser(r)
      isUser == v # NilUser /\ IsUser(v)
      okUser == isUser /\ v.username # "" /\ v.password # ""
      r1 == IF v # NilUser /\ eng.opts.OnLogoutClearContext
            THEN [r EXCEPT !.ctx = clearContext] ELSE r
      d == decodeHeader(r1.hdr[eng.authorizationHeader])
      ok == IF okUser THEN TRUE ELSE d.ok
      fullUser == IF okUser THEN FullUser(v.username, v.password) ELSE d.fullUser
      r2 == IF ok THEN [r1 EXCEPT !.hdr = StripHeaders(eng, r1.hdr)] ELSE r1
  IN [r |-> r2, ok |-> ok, fullUser |-> fullUser]

\* The handler calls Logout(r) and goes on with the request it returns;
\* b.logout runs up to and including b.mu.Lock(); delete(...).
HandlerLogout(i) ==
  /\ req[i].pc = "handler"
  /\ req[i].logouts < env.logouts
  /\ IF req[i].ctx.logout = "unset"
     THEN /\ req' = [req EXCEPT ![i].logouts = @ + 1]
          /\ UNCHANGED <<credentials, mu, hist>>
     ELSE IF req[i].ctx.logout = "nil"
     THEN /\ req' = [req EXCEPT ![i].pc = "panic", ![i].logouts = @ + 1]
          /\ UNCHANGED <<credentials, mu, hist>>
     ELSE LET l == logout(b, req[i])
          IN IF l.ok
             THEN /\ CanLock
                  /\ mu' = [mu EXCEPT !.w = i]
                  /\ credentials' = MapDelete(credentials, l.fullUser)
                  /\ hist' = [hist EXCEPT !.inserts[l.fullUser] = 0]
                  /\ req' = [req EXCEPT ![i] =
                       [l.r EXCEPT !.pc = "logoutunlock", !.logouts = @ + 1]]
             ELSE /\ req' = [req EXCEPT ![i] = [l.r EXCEPT !.logouts = @ + 1]]
                  /\ UNCHANGED <<credentials, mu, hist>>
  /\ UNCHANGED <<b, now, gc, jar, env>>

\* b.mu.Unlock() at the end of b.logout; back in the handler.
LogoutUnlock(i) ==
  /\ req[i].pc = "logoutunlock"
  /\ mu' = [mu EXCEPT !.w = NoPid]
  /\ req' = [req EXCEPT ![i].pc = "handler"]
  /\ UNCHANGED <<b, credentials, now, gc, jar, env, hist>>

\* The wrapped handler returns.
HandlerReturn(i) ==
  /\ req[i].pc = "handler"
  /\ req' = [req EXCEPT ![i].pc = "done"]
  /\ UNCHANGED <<b, credentials, mu, now, gc, jar, env, hist>>

\* ------------------------------------------------------------- client
\* The jar after the Set-Cookie headers of a response.
RECURSIVE StoreCookies(_, _, _)
StoreCookies(j, w, forbidden) ==
  IF w = <<>> THEN j
  ELSE StoreCookies(IF Head(w).MaxAge < 0 \/ Head(w).expired THEN NoCookie
                    ELSE [present |-> TRUE, value |-> Head(w).value,
                          forbidden |-> forbidden],
                    Tail(w), forbidden)

\* The response reaches the client; the goroutine ends.
Retire(i) ==
  /\ req[i].pc \in {"done", "panic"}
  /\ jar' = IF req[i].pc = "done"
            THEN StoreCookies(jar, req[i].w,
                              req[i].err.type = "ErrCredentialsForbidden")
            ELSE jar
  /\ req' = [req EXCEPT ![i] = IdleReq]
  /\ hist' = [hist EXCEPT !.streak = IF /\ req[i].pc = "done"
                                        /\ req[i].failed = "predicate"
                                        /\ req[i].run
                                        /\ req[i].prev < MaxInt
                                     THEN req[i].prev + 1 ELSE 0]
  /\ UNCHANGED <<b, credentials, mu, now, gc, env>>

\* The cookie expires or the client clears it.
ClientClear ==
  /\ jar.present
  /\ jar' = NoCookie
  /\ hist' = [hist EXCEPT !.streak = 0]
  /\ UNCHANGED <<b, credentials, mu, now, req, gc, env>>

\* Time passes.
Tick ==
  /\ now < MaxTime
  /\ now' = now + 1
  /\ UNCHANGED <<b, credentials, mu, req, gc, jar, env, hist>>

\* ------------------------------------------------------------ runGC, gc
\* A slip: the entries without an expiration are kept.
MarkedExpired(m, t) == {k \in DOMAIN m : m[k] # NilTime /\ Before(m[k], t)}
\* The entries gc marks for deletion.
Marked(m, t) == {k \in DOMAIN m : m[k] = NilTime \/ Before(m[k], t)}

\* The caller cancels the context given in Options.GC.
CancelGC ==
  /\ b.opts.GCContext
  /\ gc.pc # "off"
  /\ ~gc.cancelled
  /\ gc' = [gc EXCEPT !.cancelled = TRUE]
  /\ UNCHANGED <<b, credentials, mu, now, req, jar, env, hist>>

\* A slip: the select has no case for ctx.Done().
GCStopMissing ==
  /\ gc.pc = "wait"
  /\ gc.cancelled
  /\ UNCHANGED vars
\* case <-ctx.Done(): return
GCStop ==
  /\ gc.pc = "wait"
  /\ gc.cancelled
  /\ gc' = [gc EXCEPT !.pc = "stopped"]
  /\ UNCHANGED <<b, credentials, mu, now, req, jar, env, hist>>

\* case <-t.C: b.gc() starts with now := time.Now()
GCTick ==
  /\ gc.pc = "wait"
  /\ gc' = [gc EXCEPT !.pc = "scan", !.now = now]
  /\ hist' = [hist EXCEPT !.atStart = DOMAIN credentials]
  /\ UNCHANGED <<b, credentials, mu, now, req, jar, env>>

\* b.mu.RLock() and the range over the map
GCScan ==
  /\ gc.pc = "scan"
  /\ CanRLock
  /\ mu' = [mu EXCEPT !.r = @ \cup {GCPid}]
  /\ gc' = [gc EXCEPT !.pc = "runlock", !.marked = Marked(credentials, gc.now)]
  /\ UNCHANGED <<b, credentials, now, req, jar, env, hist>>

\* b.mu.RUnlock()
GCRUnlock ==
  /\ gc.pc = "runlock"
  /\ mu' = [mu EXCEPT !.r = @ \ {GCPid}]
  /\ gc' = [gc EXCEPT !.pc = IF gc.marked = {} THEN "wait" ELSE "delete",
                      !.now = 0]
  /\ hist' = [hist EXCEPT !.atStart = IF gc.marked = {} THEN {} ELSE @]
  /\ UNCHANGED <<b, credentials, now, req, jar, env>>

\* b.mu.Lock(); delete(b.credentials, fullUser) for the next marked entry
GCLockDelete ==
  /\ gc.pc = "delete"
  /\ CanLock
  /\ \E k \in gc.marked :
       /\ credentials' = MapDelete(credentials, k)
       /\ gc' = [gc EXCEPT !.pc = "unlock", !.marked = @ \ {k}]
       /\ hist' = [hist EXCEPT !.inserts[k] = 0]
  /\ mu' = [mu EXCEPT !.w = GCPid]
  /\ UNCHANGED <<b, now, req, jar, env>>

\* b.mu.Unlock()
GCUnlock ==
  /\ gc.pc = "unlock"
  /\ mu' = [mu EXCEPT !.w = NoPid]
  /\ gc' = [gc EXCEPT !.pc = IF gc.marked = {} THEN "wait" ELSE "delete"]
  /\ hist' = [hist EXCEPT !.atStart = IF gc.marked = {} THEN {} ELSE @]
  /\ UNCHANGED <<b, credentials, now, req, jar, env>>

\* ------------------------------------------------------ specifications
\* The state after New(o) with the clients e, whose cookie jar is j after a
\* run of k rejected requests.
InitAt(o, e, j, k) ==
  /\ b = New(o)
  /\ credentials = [x \in {} |-> NilTime]
  /\ mu = Unlocked
  /\ now = 0
  /\ req = [i \in Reqs |-> IdleReq]
  /\ gc = [pc |-> IF New(o).constructed /\ o.GCEvery > 0 THEN "wait" ELSE "off",
           now |-> 0,
           marked |-> {}, cancelled |-> FALSE]
  /\ jar = j
  /\ env = e
  /\ hist = [accepted |-> {}, inserts |-> [x \in Keys |-> 0], atStart |-> {},
             streak |-> k]

\* The state after New(o) with clients that have met no engine yet.
InitWith(o, e) == InitAt(o, e, NoCookie, 0)

\* The zero Options with a predicate.
ZeroOptions ==
  [Realm |-> DefaultRealm, Proxy |-> FALSE, HTTPSOnly |-> FALSE, Allow |-> TRUE,
   MaxAge |-> 0, MaxTries |-> 0, ErrorHandler |-> "nil", ErrorLogger |-> FALSE, GCEvery |-> 0, GCContext |-> FALSE,
   OnLogoutClearContext |-> FALSE]

\* What the clients of a scenario send.
Clients(workers, headers, cookies, logouts) ==
  [workers |-> workers, headers |-> headers, cookies |-> cookies,
   logouts |-> logouts]

\* The throttle: MaxTries with every transport and challenge option, one
\* accepted and one rejected identity, every cookie.
ThrottleScenarios ==
  {[opts |-> o,
    env |-> Clients(1, {NoHeader, BadHeader, BasicHeader("george", "george_pass"),
                        BasicHeader("kataras", "wrong")}, ForgedCookies,
                    MaxLogouts)] :
     o \in {x \in OptionsSet : x.Allow /\ x.ErrorHandler = "nil"
                                /\ x.MaxAge = 0 /\ ~x.ErrorLogger /\ x.GCEvery = 0
                                /\ ~x.GCContext /\ ~x.OnLogoutClearContext}}

\* The cache and its sweep: MaxAge and GC, two accepted identities.
CacheScenarios ==
  {[opts |-> o,
    env |-> Clients(1, {BasicHeader("george", "george_pass"),
                        BasicHeader("kataras", "kataras_pass"),
                        BasicHeader("kataras", "wrong")}, {}, MaxLogouts)] :
     o \in {x \in OptionsSet : x.Allow /\ x.ErrorHandler = "nil"
                                /\ ~x.Proxy /\ ~x.HTTPSOnly /\ x.MaxTries = 0
                                /\ ~x.ErrorLogger /\ ~x.OnLogoutClearContext
                                /\ (x.GCContext => x.GCEvery > 0)}}

\* Logout and the context: every kind of user value, both header pairs, the
\* default and an own error handler.
LogoutScenarios ==
  {[opts |-> o, env |-> Clients(1, Headers, {}, MaxLogouts)] :
     o \in {x \in OptionsSet : x.Allow
                                /\ ~x.HTTPSOnly /\ x.MaxAge = 0 /\ x.MaxTries = 0
                                /\ ~x.ErrorLogger /\ x.GCEvery = 0
                                /\ ~x.GCContext}}

\* Every option set at once (the sweep without a context), the logger among
\* them, with the default error handler.
FullScenarios ==
  {[opts |-> o,
    env |-> Clients(1, {NoHeader, BasicHeader("george", "george_pass"),
                        BasicHeader("kataras", "wrong")}, {}, MaxLogouts)] :
     o \in {x \in OptionsSet : x.Allow /\ x.ErrorHandler = "nil" /\ x.ErrorLogger
                                /\ x.Proxy /\ x.HTTPSOnly /\ x.MaxAge > 0
                                /\ x.MaxTries > 0 /\ x.GCEvery > 0 /\ ~x.GCContext
                                /\ x.OnLogoutClearContext}}

\* Options without the predicate, the other fields as an application sets them.
NoPredicateScenarios ==
  {[opts |-> o, env |-> Clients(1, Headers, {}, MaxLogouts)] :
     o \in {x \in OptionsSet : ~x.Allow /\ x.ErrorHandler = "nil" /\ ~x.Proxy
                                /\ ~x.HTTPSOnly /\ x.MaxAge = 0 /\ x.MaxTries = 0
                                /\ ~x.ErrorLogger /\ ~x.OnLogoutClearContext
                                /\ (x.GCContext => x.GCEvery > 0)}}

\* One request at a time.
Scenarios ==
  ThrottleScenarios \cup CacheScenarios \cup LogoutScenarios \cup FullScenarios
    \cup NoPredicateScenarios

Init == \E sc \in Scenarios : InitWith(sc.opts, sc.env)

\* Concurrent requests of one identity under MaxAge, each with at most one
\* Logout; and one request at a time, with the throttle, beside a sweep that
\* can be cancelled.
ConcScenarios ==
  {[opts |-> [ZeroOptions EXCEPT !.MaxAge = 2],
    env |-> Clients(NReq, {BasicHeader("george", "george_pass")}, {}, 1)],
   [opts |-> [ZeroOptions EXCEPT !.MaxAge = 2, !.MaxTries = 2, !.GCEvery = 1,
                                 !.GCContext = TRUE],
    env |-> Clients(1, {BasicHeader("george", "george_pass"),
                        BasicHeader("kataras", "wrong")}, {}, MaxLogouts)]}

InitConc == \E sc \in ConcScenarios : InitWith(sc.opts, sc.env)

Next ==
  \/ \E i \in Reqs : Serve(i)
  \/ \E i \in Reqs : Decode(i)
  \/ \E i \in Reqs : GetTries(i)
  \/ \E i \in Reqs : AllowStep(i)
  \/ \E i \in Reqs : RLockRead(i)
  \/ \E i \in Reqs : RUnlock(i)
  \/ \E i \in Reqs : LockDelete(i)
  \/ \E i \in Reqs : UnlockDelete(i)
  \/ \E i \in Reqs : LockInsert(i)
  \/ \E i \in Reqs : UnlockInsert(i)
  \/ \E i \in Reqs : Attach(i)
  \/ \E i \in Reqs : HandleError(i)
  \/ \E i \in Reqs : HandlerLogout(i)
  \/ \E i \in Reqs : LogoutUnlock(i)
  \/ \E i \in Reqs : HandlerReturn(i)
  \/ \E i \in Reqs : Retire(i)
  \/ ClientClear
  \/ Tick
  \/ CancelGC
  \/ GCStop
  \/ GCTick
  \/ GCScan
  \/ GCRUnlock
  \/ GCLockDelete
  \/ GCUnlock

Spec == Init /\ [][Next]_vars
SpecConc == InitConc /\ [][Next]_vars

\* The sweep worker with and without a context to cancel it, and no worker
\* (with the throttle).
LiveScenarios ==
  {[opts |-> [ZeroOptions EXCEPT !.MaxAge = 2, !.GCEvery = 1, !.GCContext = TRUE],
    env |-> Clients(1, {BasicHeader("george", "george_pass")}, {}, 1)],
   [opts |-> [ZeroOptions EXCEPT !.GCEvery = 1],
    env |-> Clients(1, {BasicHeader("george", "george_pass")}, {}, 0)],
   [opts |-> [ZeroOptions EXCEPT !.MaxTries = 2],
    env |-> Clients(1, {BasicHeader("kataras", "wrong")}, {}, 0)]}

InitLive == \E sc \in LiveScenarios : InitWith(sc.opts, sc.env)

\* The scheduling: a goroutine that can run does run; sync.RWMutex starves
\* neither its readers nor its writers; a select whose ctx.Done() case is
\* ready again and again takes it in the end.
GCFairness ==
  /\ SF_vars(GCStop)
  /\ SF_vars(GCScan) /\ SF_vars(GCLockDelete)
  /\ WF_vars(GCRUnlock) /\ WF_vars(GCUnlock)
Fairness ==
  /\ GCFairness
  /\ \A i \in Reqs : /\ WF_vars(RUnlock(i)) /\ WF_vars(UnlockDelete(i))
                     /\ WF_vars(UnlockInsert(i)) /\ WF_vars(LogoutUnlock(i))

SpecLive == InitLive /\ [][Next]_vars /\ Fairness

\* Two concurrent requests of one identity beside the sweep, each with at most
\* one Logout; one request at a time with MaxAge beside a sweep that can be
\* cancelled; and the throttle.
PairScenarios ==
  {[opts |-> [ZeroOptions EXCEPT !.GCEvery = 1],
    env |-> Clients(2, {BasicHeader("george", "george_pass")}, {}, 1)],
   [opts |-> [ZeroOptions EXCEPT !.MaxAge = 2, !.GCEvery = 1, !.GCContext = TRUE],
    env |-> Clients(1, {BasicHeader("george", "george_pass")}, {}, 1)],
   [opts |-> [ZeroOptions EXCEPT !.MaxTries = 2],
    env |-> Clients(1, {BasicHeader("kataras", "wrong")}, {}, 0)]}

InitPair == \E sc \in PairScenarios : InitWith(sc.opts, sc.env)

SpecPair == InitPair /\ [][Next]_vars

\* The steps of a request goroutine that wait for nothing (the predicate, the
\* handler and the error handler return), and those that take the lock.
ReqStep(i) ==
  \/ Decode(i) \/ GetTries(i) \/ AllowStep(i) \/ Attach(i) \/ HandleError(i)
  \/ HandlerReturn(i)
  \/ RUnlock(i) \/ UnlockDelete(i) \/ UnlockInsert(i) \/ LogoutUnlock(i)
ReqAcquire(i) == RLockRead(i) \/ LockDelete(i) \/ LockInsert(i)

\* The scheduling of the request goroutines: each runs on, and gets the lock
\* it waits for (sync.RWMutex starves nobody).
RequestFairness ==
  \A i \in Reqs : WF_vars(ReqStep(i)) /\ SF_vars(ReqAcquire(i))

SpecProgress == InitLive /\ [][Next]_vars /\ GCFairness /\ RequestFairness

\* A client late in a run of rejected requests under MaxTries: MaxInt of them
\* are behind it, each sent with the cookie of the one before, so its jar
\* holds the count MaxInt, which came with ErrCredentialsForbidden. The engine
\* keeps no state about the tries, it is as New left it.
InitLongRun ==
  InitAt([ZeroOptions EXCEPT !.MaxTries = 2],
         Clients(1, {BasicHeader("kataras", "wrong")}, {}, 0),
         [present |-> TRUE, value |-> QueryEscape(Itoa(MaxInt)),
          forbidden |-> TRUE],
         MaxInt)

SpecLongRun == (InitLive \/ InitLongRun) /\ [][Next]_vars

\* ================================================================ claims
AllChecks == {"transport", "header", "predicate", "cache"}
Ended(i) == req[i].pc \in {"done", "panic"}

\* C1: the wrapped handler is invoked only by a request that passed the
\* transport check, the header decoding, the predicate and the cache lookup;
\* a request that failed one of them gets the error handler instead; one of
\* the two is invoked, once, per request.
C1_OneOutcome ==
  \A i \in Reqs :
    /\ req[i].nextCalls + req[i].errCalls <= 1
    /\ req[i].nextCalls = 1 => req[i].passed = AllChecks /\ req[i].failed = ""
    /\ req[i].errCalls = 1 => req[i].failed # ""
    /\ req[i].failed # "" =>
         /\ req[i].nextCalls = 0
         /\ req[i].pc \in {"lockdel", "unlockdel", "error", "done"}
    /\ Ended(i) => req[i].nextCalls + req[i].errCalls = 1
    /\ req[i].pc = "done" =>
         (req[i].nextCalls = 1 <=> req[i].passed = AllChecks)
C1_Witness ==
  \E i \in Reqs : req[i].pc = "done" /\ req[i].errCalls = 1
                  /\ req[i].failed = "cache" /\ req[i].nextCalls = 0

\* C2: the handler's GetUser on the request it receives is the value the
\* predicate returned for the header's credentials, or the default user of
\* that username and password when it returned none.
C2_IdentityRead ==
  \A i \in Reqs :
    (req[i].pc = "handler" /\ req[i].logouts = 0) =>
      LET d == decodeHeader(req[i].hdr[b.authorizationHeader])
          a == Allow(d.username, d.password)
      IN /\ d.ok /\ a.ok
         /\ GetUser(req[i]) = IF a.user # NilUser THEN a.user
                              ELSE SimpleUser(d.username, d.password)
C2_Witness ==
  \E i \in Reqs : /\ req[i].pc = "handler" /\ req[i].logouts = 0
                  /\ GetUser(req[i]) = SimpleUser("george", "george_pass")

\* C3: a request that carries a cookie issued with a forbidden error is
\* rejected as forbidden, whatever its credentials.
C3_ForbiddenSticks ==
  \A i \in Reqs :
    (b.opts.MaxTries > 0 /\ req[i].cookie.forbidden /\ Ended(i)) =>
      req[i].err.type = "ErrCredentialsForbidden" /\ req[i].nextCalls = 0

\* C4: when MaxTries = N > 0 and the predicate rejects a request whose cookie
\* count is c, the cookie written carries c+1 and the error is forbidden if
\* c+1 >= N and else invalid-credentials with count c+1 and the challenge of
\* the engine; the handler is not invoked.
C4_RejectionCounts ==
  \A i \in Reqs :
    (b.opts.MaxTries > 0 /\ req[i].failed = "predicate") =>
      LET c == getCurrentTries(req[i].cookie)
          e == req[i].err
      IN /\ req[i].nextCalls = 0
         /\ Len(req[i].w) = 1
         /\ c < Atoi(req[i].w[1].value)
         /\ Atoi(req[i].w[1].value) - c = 1
         /\ IF c >= b.opts.MaxTries - 1
            THEN e.type = "ErrCredentialsForbidden" /\ c < e.Tries /\ e.Tries - c = 1
            ELSE /\ e.type = "ErrCredentialsInvalid"
                 /\ c < e.CurrentTries /\ e.CurrentTries - c = 1
                 /\ e.Code = (IF b.opts.Proxy THEN 407 ELSE 401)
                 /\ e.AuthenticateHeader = (IF b.opts.Proxy THEN "Proxy-Authenticate"
                                            ELSE "WWW-Authenticate")

\* C5: with MaxAge > 0, an accepted request whose lookup meets an entry whose
\* expiration is over ends in the expired error: the handler is not invoked,
\* the request deletes the entry and does not insert it; an entry is
\* (re-)created only by an accepted request that met no entry, with an
\* expiration MaxAge after the time it read.
C5_Expiry ==
  \A i \in Reqs :
    /\ (b.opts.MaxAge > 0 /\ req[i].stale /\ req[i].pc \in {"error", "done"}) =>
         /\ req[i].err.type = "ErrCredentialsExpired"
         /\ req[i].nextCalls = 0
         /\ req[i].wrote = <<"delete">>
         /\ req[i].fullUser \notin DOMAIN credentials
    /\ (req[i].wrote # <<>> /\ Head(req[i].wrote) = "insert") =>
         /\ ~req[i].stale /\ ~req[i].found /\ "predicate" \in req[i].passed
         /\ req[i].wrote = <<"insert">>
         /\ (b.opts.MaxAge > 0) => (req[i].expiresAt >= b.opts.MaxAge)
    /\ (b.opts.MaxAge > 0 /\ req[i].pc = "unlockins") =>
         credentials[req[i].fullUser] = req[i].expiresAt
C5_Witness ==
  \E i \in Reqs : /\ b.opts.MaxAge > 0 /\ req[i].stale /\ req[i].pc = "done"
                  /\ req[i].err.type = "ErrCredentialsExpired"

\* C6: after Logout on an authenticated request with the header credentials
\* (u, p), the map holds no entry under u:p.
C6_LogoutDeletes ==
  \A i \in Reqs :
    (req[i].logouts > 0 /\ req[i].pc \in {"logoutunlock", "handler"}) =>
      FullUser(req[i].username, req[i].password) \notin DOMAIN credentials

\* C7: after Logout with OnLogoutClearContext, GetUser on the returned request
\* is nil and its BasicAuth() reports no credentials.
C7_LogoutClears ==
  \A i \in Reqs :
    (b.opts.OnLogoutClearContext /\ req[i].logouts > 0
       /\ req[i].pc \in {"logoutunlock", "handler", "done"}) =>
      GetUser(req[i]) = NilUser /\ ~RequestBasicAuth(req[i]).ok
C7_Witness ==
  \E i \in Reqs : /\ b.opts.OnLogoutClearContext /\ b.opts.Proxy
                  /\ req[i].logouts = 1 /\ req[i].pc = "handler"
                  /\ req[i].username = "kataras"

\* C8: every key of the map is an identity the predicate accepted in an
\* earlier request, and a key is added only by the insert of a request the
\* predicate accepted: no rejected request, sweep or logout adds one.
C8_KeyAdded ==
  \A k \in Keys :
    (k \notin DOMAIN credentials /\ k \in DOMAIN credentials') =>
      \E i \in Reqs : /\ req[i].pc = "lockins" /\ req'[i].pc = "unlockins"
                      /\ req[i].fullUser = k
                      /\ "predicate" \in req[i].passed
C8_OnlyAccepted ==
  /\ [](DOMAIN credentials \subseteq hist.accepted)
  /\ [][C8_KeyAdded]_vars
C8_Witness ==
  /\ FullUser("kataras", "kataras_pass") \in DOMAIN credentials
  /\ \E i \in Reqs : req[i].pc = "done" /\ req[i].failed = "predicate"

\* C9: the expiration of an entry does not change while the entry stays in
\* the map.
C9_ExpirationStable ==
  [][\A k \in Keys :
       (k \in DOMAIN credentials /\ k \in DOMAIN credentials') =>
         credentials'[k] = credentials[k]]_vars

\* C10: with MaxAge unset and one request at a time, an entry is inserted once
\* between two removals: the request that meets the entry writes nothing to
\* the map, the one that does not inserts it once.
C10_InsertOnce ==
  (b.opts.MaxAge = 0 /\ env.workers = 1) =>
    /\ \A k \in Keys : hist.inserts[k] <= 1
    /\ \A k \in Keys : (k \in DOMAIN credentials) <=> (hist.inserts[k] = 1)
    /\ \A i \in Reqs :
         (req[i].pc \in {"attach", "handler", "done"}
            /\ req[i].passed = AllChecks) =>
           /\ req[i].found => req[i].wrote = <<>>
           /\ ~req[i].found => req[i].wrote = <<"insert">>
C10_Witness ==
  \E i \in Reqs : /\ b.opts.MaxAge = 0 /\ env.workers = 1 /\ req[i].pc = "done"
                  /\ req[i].found /\ req[i].wrote = <<>> /\ req[i].nextCalls = 1
                  /\ hist.inserts[req[i].fullUser] = 1

\* C11: with a sweep interval and MaxAge unset, a key that is in the map when
\* a sweep run starts (and that no request inserted since) is not in the map
\* when the run completes; no lookup takes such an entry for an expired one.
C11_RunCompletes ==
  (gc.pc \in {"runlock", "unlock"} /\ gc'.pc = "wait") =>
    \A k \in hist.atStart : k \notin DOMAIN credentials'
C11_SweepAll ==
  /\ [](b.opts.MaxAge = 0 =>
         \A i \in Reqs : /\ ~req[i].stale
                         /\ req[i].pc \notin {"lockdel", "unlockdel"}
                         /\ req[i].err.type # "ErrCredentialsExpired")
  /\ [][b.opts.MaxAge = 0 /\ b.opts.GCEvery > 0 => C11_RunCompletes]_vars
C11_Witness ==
  /\ b.opts.MaxAge = 0 /\ b.opts.GCEvery > 0
  /\ gc.pc = "unlock" /\ gc.marked = {}
  /\ Cardinality(hist.atStart) = 2
  /\ \E i \in Reqs : req[i].pc = "done" /\ req[i].found /\ req[i].nextCalls = 1

\* C12: a request the predicate accepted has written, before the lookup in the
\* map, the cookie that clears the tries (negative MaxAge, expiration in the
\* past) when the count it read was above zero, and no cookie when it was zero.
C12_ResetOnSuccess ==
  \A i \in Reqs :
    "predicate" \in req[i].passed =>
      LET c == getCurrentTries(req[i].cookie)
      IN /\ req[i].tries = (IF b.opts.MaxTries > 0 THEN c ELSE 0)
         /\ req[i].tries > 0 =>
              /\ Len(req[i].w) = 1
              /\ req[i].w[1].MaxAge < 0 /\ req[i].w[1].expired
              /\ req[i].w[1].value = <<>>
         /\ req[i].tries = 0 => req[i].w = <<>>
C12_Witness ==
  \E i \in Reqs : /\ req[i].pc = "rlock" /\ req[i].tries = 1
                  /\ req[i].cookie = jar /\ req[i].w = <<ResetCookie>>

\* C13: under HTTPSOnly a request ends in the transport error if and only if it
\* is not secure (no https scheme and no TLS connection); a request that ends
\* so decodes no header, calls no predicate, writes no cookie and does not
\* touch the map, and every secure request goes on to the header check.
C13_TransportOnly ==
  \A i \in Reqs :
    /\ req[i].failed = "transport" =>
         /\ b.opts.HTTPSOnly
         /\ ~(req[i].scheme = "https" \/ req[i].tls)
         /\ req[i].err = ErrHTTPVersion
         /\ req[i].passed = {} /\ req[i].hdr = NoHeaders
         /\ req[i].w = <<>> /\ req[i].wrote = <<>> /\ ~req[i].found
    /\ (b.opts.HTTPSOnly /\ req[i].pc = "decode") =>
         (req[i].scheme = "https" \/ req[i].tls)

\* C14: a request whose authorization header (Proxy-Authorization in proxy
\* mode, Authorization otherwise) is absent or does not decode ends in the
\* credentials-missing error with the challenge of the construction (407 and
\* Proxy-Authenticate in proxy mode, 401 and WWW-Authenticate otherwise, the
\* value with the realm); the predicate is not called, no cookie is written
\* and the map is not accessed; a request with a header that decodes goes on.
C14_MissingChallenge ==
  \A i \in Reqs :
    LET read == IF b.opts.Proxy THEN "Proxy-Authorization" ELSE "Authorization"
    IN /\ req[i].failed = "header" =>
            /\ req[i].pc \in {"error", "done"}
            /\ req[i].hdr[read].kind # "basic"
            /\ req[i].err.type = "ErrCredentialsMissing"
            /\ req[i].err.Header = req[i].hdr[read]
            /\ req[i].err.Code = (IF b.opts.Proxy THEN 407 ELSE 401)
            /\ req[i].err.AuthenticateHeader =
                 (IF b.opts.Proxy THEN "Proxy-Authenticate" ELSE "WWW-Authenticate")
            /\ req[i].err.AuthenticateHeaderValue =
                 <<"Basic", " realm=", "\"", "Authorization Required", "\"">>
            /\ req[i].passed = {"transport"} /\ req[i].nextCalls = 0
            /\ req[i].cookie = NoCookie /\ req[i].w = <<>>
            /\ req[i].wrote = <<>> /\ ~req[i].found /\ ~req[i].stale
       /\ (req[i].pc \notin {"idle", "decode"} /\ req[i].failed # "transport"
             /\ req[i].hdr[read].kind # "basic" /\ req[i].logouts = 0) =>
            req[i].failed = "header"
C14_Witness ==
  \E i \in Reqs : /\ b.opts.Proxy /\ req[i].pc = "done" /\ req[i].failed = "header"
                  /\ req[i].hdr["Authorization"].kind = "basic"
                  /\ req[i].errCalls = 1

\* C15: the count read from a request is never negative: 0 when the cookie is
\* absent, empty or not a number of the int range that is at least 0, the
\* number otherwise; so the count written after a rejection is at least 1.
C15_CountNonNegative ==
  \A i \in Reqs :
    /\ req[i].tries >= 0
    /\ (~req[i].cookie.present \/ req[i].cookie.value = <<>>
          \/ ParseDigits(req[i].cookie.value, 0, MaxInt) < 0) =>
         (req[i].pc = "allow" => req[i].tries = 0)
    /\ (b.opts.MaxTries > 0 /\ req[i].failed = "predicate") =>
         /\ req[i].tries >= 1
         /\ Len(req[i].w) = 1 /\ Atoi(req[i].w[1].value) >= 1

\* C16: with MaxTries = 0 no request reads, writes or resets the tries cookie,
\* none ends in the forbidden error, and a request the predicate rejected ends
\* in the invalid-credentials error with the count 0.
C16_ThrottleOff ==
  b.opts.MaxTries = 0 =>
    /\ jar = NoCookie
    /\ \A i \in Reqs :
         /\ req[i].cookie = NoCookie /\ req[i].tries = 0 /\ req[i].w = <<>>
         /\ req[i].err.type # "ErrCredentialsForbidden"
         /\ req[i].failed = "predicate" =>
              /\ req[i].err.type = "ErrCredentialsInvalid"
              /\ req[i].err.CurrentTries = 0
              /\ req[i].nextCalls = 0
C16_Witness ==
  \E i \in Reqs : /\ b.opts.MaxTries = 0 /\ req[i].pc = "done"
                  /\ req[i].failed = "predicate" /\ req[i].errCalls = 1
                  /\ req[i].err.type = "ErrCredentialsInvalid"

\* C17: with GC.Every > 0 one gc goroutine exists from the construction on and
\* a sweep it starts on a tick runs to its end; once the context is cancelled
\* the goroutine stops in the end and a stopped goroutine does nothing more;
\* without a context it never stops; with GC.Every = 0 there is no goroutine.
C17_SweepWorker ==
  /\ []((b.constructed /\ b.opts.GCEvery > 0) <=> gc.pc # "off")
  /\ [](~b.opts.GCContext => ~gc.cancelled /\ gc.pc # "stopped")
  /\ [](gc.pc = "stopped" => gc.cancelled /\ gc.marked = {} /\ GCPid \notin mu.r
                              /\ mu.w # GCPid)
  /\ [][gc.pc \in {"off", "stopped"} => gc' = gc]_vars
  /\ (gc.pc = "scan" ~> gc.pc = "wait")
  /\ (gc.cancelled ~> gc.pc = "stopped")
C17_Witness ==
  /\ gc.pc = "stopped" /\ gc.cancelled
  /\ FullUser("george", "george_pass") \in DOMAIN credentials
  /\ credentials[FullUser("george", "george_pass")] < now

\* C18: a request that failed (transport, header, predicate or expired entry)
\* ends with one call of the error handler, preceded by one call of the logger
\* when there is one and by nothing when there is none; an engine always has
\* an error handler, the default one when the options gave none.
C18_LoggedBeforeHandled ==
  /\ b.constructed => b.opts.ErrorHandler \in {"DefaultErrorHandler", "custom"}
  /\ \A i \in Reqs :
       /\ (req[i].pc = "done" /\ req[i].failed # "") =>
            req[i].calls = (IF b.opts.ErrorLogger
                            THEN <<"ErrorLogger", b.opts.ErrorHandler>>
                            ELSE <<b.opts.ErrorHandler>>)
       /\ (req[i].pc # "done" /\ req[i].failed # "") => req[i].calls = <<>>
       /\ req[i].failed = "" => req[i].calls \in {<<>>, <<"next">>}
       /\ req[i].logged = (IF b.opts.ErrorLogger THEN req[i].errCalls ELSE 0)
C18_Witness ==
  \E i \in Reqs : /\ b.opts.ErrorLogger /\ req[i].pc = "done"
                  /\ req[i].err.type = "ErrCredentialsExpired"
                  /\ req[i].calls = <<"ErrorLogger", "DefaultErrorHandler">>

\* C19: New with options that have no predicate panics: no engine is built, so
\* there is no middleware to serve a request, no map that gets an entry and no
\* gc goroutine, whatever the other options and however long the server runs;
\* with a predicate the engine is built.
C19_NoPredicateNoEngine ==
  /\ b.constructed <=> b.opts.Allow
  /\ ~b.opts.Allow =>
       /\ b = Panicked(b.opts)
       /\ gc.pc = "off" /\ ~gc.cancelled
       /\ DOMAIN credentials = {} /\ mu = Unlocked /\ jar = NoCookie
       /\ \A i \in Reqs : req[i] = IdleReq
C19_Witness ==
  ~b.opts.Allow /\ b.opts.GCEvery > 0 /\ b.opts.GCContext /\ now = MaxTime

\* C20: with MaxAge > 0 an entry the sweep deletes has, at the time of the
\* delete, an expiration that is over: an entry inserted again with a later
\* expiration after the scan is not deleted by that sweep.
C20_SweepOnlyExpired ==
  [][(b.opts.MaxAge > 0 /\ gc.pc = "delete" /\ gc'.pc = "unlock") =>
       \A k \in DOMAIN credentials \ DOMAIN credentials' :
         credentials[k] # NilTime /\ credentials[k] < now]_vars

\* C21: the delete of a request that met an expired entry removes that entry
\* only: it never removes an entry that another request inserted, with an
\* expiration that is not over, between the lookup and the delete.
C21_LazyDeleteOnlyExpired ==
  [][\A i \in Reqs :
       (req[i].pc = "lockdel" /\ req'[i].pc = "unlockdel") =>
         \A k \in DOMAIN credentials \ DOMAIN credentials' :
           /\ credentials[k] = req[i].expiresAt
           /\ credentials[k] # NilTime /\ credentials[k] < now]_vars

\* C22: the map is read under the lock (shared or exclusive) and changed
\* under the exclusive lock only, by the requests, by logout and by the sweep;
\* none of them holds the lock while the predicate, the wrapped handler or
\* the error handler runs.
C22_Procs == Reqs \cup {GCPid}
C22_Reading(p) ==
  IF p = GCPid THEN gc.pc = "runlock" ELSE req[p].pc = "runlock"
C22_Writing(p) ==
  IF p = GCPid THEN gc.pc = "unlock"
  ELSE req[p].pc \in {"unlockdel", "unlockins", "logoutunlock"}
C22_LockedAccess ==
  /\ \A p \in C22_Procs :
       /\ (p \in mu.r) <=> C22_Reading(p)
       /\ (mu.w = p) <=> C22_Writing(p)
  /\ mu.w \in C22_Procs \cup {NoPid} /\ mu.r \subseteq C22_Procs
  /\ (mu.w # NoPid) => mu.r = {}
  /\ \A i \in Reqs :
       req[i].pc \in {"allow", "handler", "error"} => (i \notin mu.r /\ mu.w # i)
C22_LockedWrite ==
  credentials' # credentials =>
    /\ mu.w = NoPid /\ mu.r = {}
    /\ mu'.w # NoPid
    /\ IF mu'.w = GCPid THEN gc.pc = "delete" /\ gc'.pc = "unlock"
       ELSE /\ req[mu'.w].pc \in {"lockdel", "lockins", "handler"}
            /\ req'[mu'.w].pc \in {"unlockdel", "unlockins", "logoutunlock"}
C22_LockedRead ==
  /\ \A i \in Reqs :
       (req'[i].found # req[i].found \/ req'[i].expiresAt # req[i].expiresAt) =>
         (req'[i] = IdleReq \/ i \in mu.r \/ i \in mu'.r)
  /\ gc'.marked \ gc.marked # {} => GCPid \in mu'.r
C22_LockDiscipline ==
  /\ []C22_LockedAccess
  /\ [][C22_LockedWrite /\ C22_LockedRead]_vars
C22_Witness ==
  /\ mu.w = GCPid
  /\ \E i, j \in Reqs : req[i].pc = "lockins" /\ req[j].pc = "handler"
                          /\ req[j].logouts = 1

\* C23: while the predicate, the handler and the error handler return, every
\* request comes to its decision, which is one of the five errors or the call
\* of the wrapped handler, and then to its end; no request, logout or sweep
\* waits for the lock for ever, and every lock that is taken is released.
C23_Errors ==
  {"ErrHTTPVersion", "ErrCredentialsMissing", "ErrCredentialsInvalid",
   "ErrCredentialsForbidden", "ErrCredentialsExpired"}
C23_Decided(i) == req[i].nextCalls + req[i].errCalls = 1
C23_OneTerminal ==
  \A i \in Reqs :
    /\ req[i].nextCalls + req[i].errCalls <= 1
    /\ req[i].pc = "done" =>
         \/ req[i].nextCalls = 1 /\ req[i].errCalls = 0 /\ req[i].err = NoErr
         \/ req[i].nextCalls = 0 /\ req[i].errCalls = 1
              /\ req[i].err.type \in C23_Errors
C24_StreakCounts ==
  \A i \in Reqs :
    (/\ b.opts.MaxTries > 0
     /\ req[i].failed = "predicate"
     /\ req[i].run) =>
      /\ req[i].tries > 0
      /\ req[i].tries - 1 = req[i].prev
      /\ req[i].w = <<TriesCookie(b, req[i].tries)>>
      /\ req[i].prev < b.opts.MaxTries - 1 =>
           req[i].err = ErrCredentialsInvalid(b, req[i].username,
                                              req[i].password, req[i].tries)
      /\ req[i].prev >= b.opts.MaxTries - 1 =>
           req[i].err = ErrCredentialsForbidden(b, req[i].username,
                                                req[i].password, req[i].tries)

\* C25: every entry of the map has no expiration when MaxAge is 0 and, when
\* MaxAge > 0, the expiration "time read by the request that inserted it, plus
\* MaxAge"; so with MaxAge 0 no request ends in ErrCredentialsExpired, and
\* a lookup removes an entry only when its expiration is strictly in the past.
C25_Entries ==
  /\ b.opts.MaxAge = 0 =>
       /\ \A k \in DOMAIN credentials : credentials[k] = NilTime
       /\ \A i \in Reqs : req[i].err.type # "ErrCredentialsExpired"
  /\ b.opts.MaxAge > 0 =>
       \A k \in DOMAIN credentials :
         credentials[k] # NilTime /\ credentials[k] <= now + b.opts.MaxAge
C25_Step ==
  \A i \in Reqs :
    /\ (req[i].pc = "runlock" /\ req'[i].pc = "lockins") =>
         req'[i].expiresAt = IF b.opts.MaxAge > 0 THEN now + b.opts.MaxAge
                             ELSE NilTime
    /\ (req[i].pc = "lockins" /\ req'[i].pc = "unlockins") =>
         /\ req[i].fullUser \in DOMAIN credentials'
         /\ credentials'[req[i].fullUser] = req[i].expiresAt
    /\ (req[i].pc = "lockdel" /\ req'[i].pc = "unlockdel") =>
         \A k \in DOMAIN credentials \ DOMAIN credentials' :
           credentials[k] # NilTime /\ credentials[k] < now
C25_ExpirationFromInsert == []C25_Entries /\ [][C25_Step]_vars

\* C26: a request that ends in ErrHTTPVersion, ErrCredentialsMissing,
\* ErrCredentialsInvalid or ErrCredentialsForbidden leaves the map as it was:
\* none of its steps inserts, deletes or changes an entry, an entry of the
\* same username under another password included; it does not even read the
\* map or take its lock.
C26_Rejecting == {"transport", "header", "predicate"}
C26_Untouched ==
  \A i \in Reqs :
    req[i].failed \in C26_Rejecting =>
      /\ req[i].pc \in {"error", "done"}
      /\ req[i].err.type \in {"ErrHTTPVersion", "ErrCredentialsMissing",
                              "ErrCredentialsInvalid", "ErrCredentialsForbidden"}
      /\ "predicate" \notin req[i].passed
      /\ req[i].wrote = <<>> /\ ~req[i].found /\ ~req[i].stale
      /\ req[i].nextCalls = 0 /\ req[i].logouts = 0
      /\ mu.w # i /\ i \notin mu.r
C26_StepFrame ==
  \A i \in Reqs :
    (req'[i] # req[i] /\ credentials' # credentials) =>
      /\ "predicate" \in req[i].passed
      /\ req[i].failed \notin C26_Rejecting
      /\ req'[i].failed \notin C26_Rejecting
C26_FailureFrame == []C26_Untouched /\ [][C26_StepFrame]_vars
C26_Witness ==
  /\ b.opts.MaxAge > 0
  /\ FullUser("kataras", "kataras_pass") \in DOMAIN credentials
  /\ \E i \in Reqs : /\ req[i].pc = "done"
                     /\ req[i].username = "kataras" /\ req[i].password = "wrong"
                     /\ req[i].err.type = "ErrCredentialsInvalid"
                     /\ credentials[FullUser("kataras", "kataras_pass")]
                          = now + b.opts.MaxAge

\* C27: Logout of a request whose context carries no logout function (one
\* that never went through the engine, or the one a Logout with
\* OnLogoutClearContext returned) returns the request as it is and does not
\* fail: a second Logout in a row changes nothing.
C27_LogoutWithoutFunc ==
  [][\A i \in Reqs :
       (/\ req[i].pc = "handler"
        /\ req'[i].logouts = req[i].logouts + 1
        /\ req[i].ctx.logout # "bound") =>
         /\ req'[i] = [req[i] EXCEPT !.logouts = @ + 1]
         /\ credentials' = credentials /\ mu' = mu]_vars

\* C28: without OnLogoutClearContext, Logout leaves the context of the request
\* as the engine made it, so GetUser on the returned request is still the user
\* attached at authentication; the authorization header is deleted and the
\* entry of the request's credentials is removed from the map all the same.
C28_LogoutKeepsContext ==
  \A i \in Reqs :
    (/\ ~b.opts.OnLogoutClearContext
     /\ req[i].logouts > 0
     /\ req[i].pc \in {"logoutunlock", "handler", "done"}) =>
      /\ req[i].ctx = newContext(ResolveUser(req[i].user, req[i].username,
                                             req[i].password), "bound")
      /\ GetUser(req[i]) # NilUser
      /\ req[i].hdr[b.authorizationHeader] = NoHeader
      /\ ~RequestBasicAuth(req[i]).ok
      /\ FullUser(req[i].username, req[i].password) \notin DOMAIN credentials

====
